---- MODULE Spec2Model ----
(***************************************************************************)
(* enigma2jellyfin (app.py): the generation pipeline that turns an Enigma2 *)
(* bouquet into an XMLTV file and an M3U playlist, the scheduler thread    *)
(* that repeats it, and the Flask routes that serve the two files.         *)
(*                                                                         *)
(* Python values: a str is a sequence of one-character strings; an         *)
(* optional value is a sequence of length 0 (None) or 1 (the value).       *)
(***************************************************************************)
EXTENDS Integers, Sequences, FiniteSets, TLC

VARIABLES
    mainPc,     \* main(): index into main_order of the statement main is at
    schedPc,    \* schedule_job thread: "unstarted", "call", "sleep" or "dead"
    run,        \* per thread, the frame of its generate_files() call
    epgFile,    \* the file at CONFIG["epg_file"]: None or Some(sequence of chunks)
    m3uFile,    \* the file at CONFIG["m3u_file"]: None or Some(sequence of lines)
    device,     \* what the Enigma2 box would answer right now
    cache,      \* the requests_cache store: a set of [url, body]
    response,   \* the HTTP response the last step sent, NoResponse if none
    arg,        \* codec specification: the service reference under test
    ret         \* codec specification: None before the call, Some(result) after

vars == <<mainPc, schedPc, run, epgFile, m3uFile, device, cache, response, arg, ret>>

(***************************************************************************)
(* Bounds.                                                                 *)
(***************************************************************************)
\* Longest service reference the codec specification enumerates.
MaxRefLen == 5

\* Longest prefix (in chunks) of a document that a flush of the write buffer
\* puts on disk before the file is closed.
MaxFlush == 1

(***************************************************************************)
(* Python values.                                                          *)
(***************************************************************************)
None == <<>>
Some(v) == <<v>>
Get(o) == o[1]

\* Python's truth value of an optional str / optional int ("if not x", "if x").
TruthyStr(o) == o # None /\ Get(o) # <<>>
TruthyInt(o) == o # None /\ Get(o) # 0

(***************************************************************************)
(* str methods used by app.py.                                             *)
(***************************************************************************)
Digits == {"0", "1", "2", "3", "4", "5", "6", "7", "8", "9"}
HexLetters == {"a", "b", "c", "d", "e", "f", "A", "B", "C", "D", "E", "F"}
Letters == HexLetters \cup {"g", "t", "v", "x", "N", "T", "V"}

\* A letter outside ASCII.
UnicodeLetters == {"é"}

\* str.isalnum() of one character: true for every Unicode letter or digit.
isalnum(c) == c \in Digits \cup Letters \cup UnicodeLetters

\* s.startswith(p)
startswith(s, p) == Len(s) >= Len(p) /\ SubSeq(s, 1, Len(p)) = p

\* p in s  (substring test)
contains(s, p) ==
    \E k \in 0..(Len(s) - Len(p)) : SubSeq(s, k + 1, k + Len(p)) = p

\* s[:-1]
DropLast(s) == SubSeq(s, 1, Len(s) - 1)

\* s.split(":"): the fields between the colons, at least one. The scan
\* reads s from position k on, with cur the field read so far.
RECURSIVE SplitFrom(_, _, _)
SplitFrom(s, k, cur) ==
    IF k > Len(s) THEN <<cur>>
    ELSE IF s[k] = ":" THEN <<cur>> \o SplitFrom(s, k + 1, <<>>)
    ELSE SplitFrom(s, k + 1, Append(cur, s[k]))

split(s) == SplitFrom(s, 1, <<>>)

\* The value of one digit in base 16, -1 for any other character.
DigitValue(c) ==
    CASE c = "0" -> 0 [] c = "1" -> 1 [] c = "2" -> 2 [] c = "3" -> 3
      [] c = "4" -> 4 [] c = "5" -> 5 [] c = "6" -> 6 [] c = "7" -> 7
      [] c = "8" -> 8 [] c = "9" -> 9
      [] c \in {"a", "A"} -> 10 [] c \in {"b", "B"} -> 11
      [] c \in {"c", "C"} -> 12 [] c \in {"d", "D"} -> 13
      [] c \in {"e", "E"} -> 14 [] c \in {"f", "F"} -> 15
      [] OTHER -> -1

\* Accumulate the digits of s left to right in the given base; None on the
\* first character that is no digit of that base, and on no digits at all.
RECURSIVE ParseDigits(_, _, _, _)
ParseDigits(s, base, k, acc) ==
    IF k > Len(s) THEN (IF Len(s) = 0 THEN None ELSE Some(acc))
    ELSE LET d == DigitValue(s[k])
         IN  IF d < 0 \/ d >= base THEN None
             ELSE ParseDigits(s, base, k + 1, acc * base + d)

\* int(s, base) for a str over the model's alphabet: an optional sign, then
\* digits. None stands for the ValueError int() raises.
py_int(s, base) ==
    IF Len(s) > 0 /\ s[1] \in {"-", "+"}
    THEN LET m == ParseDigits(SubSeq(s, 2, Len(s)), base, 1, 0)
         IN  IF m = None THEN None
             ELSE Some(IF s[1] = "-" THEN 0 - Get(m) ELSE Get(m))
    ELSE ParseDigits(s, base, 1, 0)

(***************************************************************************)
(* The service-reference codec.                                            *)
(***************************************************************************)
\* safe_channel_id(service_ref)
safe_channel_id(service_ref) ==
    [k \in 1..Len(service_ref) |->
        IF isalnum(service_ref[k]) THEN service_ref[k] ELSE "_"]

\* The index (0-based, as in the source) of the field that holds the program id.
ProgramIdField == 3

\* extract_program_id with "return int(hex_id, 16) or None": a zero id is lost.
extract_program_id_zero_lost(service_ref) ==
    LET parts == split(service_ref)
        v == IF Len(parts) >= 4 THEN py_int(parts[4], 16) ELSE None
    IN  IF TruthyInt(v) THEN v ELSE None

\* extract_program_id(service_ref): Some(int) or None.
extract_program_id(service_ref) ==
    LET parts == split(service_ref)
    IN  IF Len(parts) >= ProgramIdField + 1
        THEN py_int(parts[ProgramIdField + 1], 16)
        ELSE None

(***************************************************************************)
(* The Enigma2 box: the data its three OpenWebIf endpoints answer with.    *)
(***************************************************************************)
\* CONFIG["bouquet"]: "tv"
BouquetName == <<"t", "v">>

\* Bouquet references of the full lineup: "1:7:x", "1:7:tv", "1:7:tvx".
RefOther == <<"1", ":", "7", ":", "x">>
RefTv == <<"1", ":", "7", ":", "t", "v">>
RefTvx == <<"1", ":", "7", ":", "t", "v", "x">>

\* Service references inside a bouquet: "1:0:1:1F:" and "1:0:1:0:5" are
\* channels, "1:64:0:0:" is a marker.
ChA == <<"1", ":", "0", ":", "1", ":", "1", "F", ":">>
ChB == <<"1", ":", "0", ":", "1", ":", "0", ":", "5">>
Marker == <<"1", ":", "6", "4", ":", "0", ":", "0", ":">>

\* <e2service> entries of getservices?sRef=...: name and reference, each
\* None when the child element is missing.
EntryA == [name |-> Some("Das Erste"), ref |-> Some(ChA)]
EntryMarker == [name |-> Some("== HD =="), ref |-> Some(Marker)]
EntryB == [name |-> None, ref |-> Some(ChB)]
EntryNoRef == [name |-> Some("broken"), ref |-> None]

\* <e2event> entries of epgservice?sRef=...: the text of each child element.
EvNews == [title |-> Some("News"), desc |-> Some("at eight"),
           start |-> Some(<<"6", "0">>), duration |-> Some(<<"3", "0">>)]
EvBadDuration == [title |-> Some("Film"), desc |-> None,
                  start |-> Some(<<"9", "0">>), duration |-> Some(<<"x">>)]
EvNoStart == [title |-> Some("Quiz"), desc |-> Some(""),
              start |-> None, duration |-> Some(<<"3", "0">>)]
EvZero == [title |-> None, desc |-> Some("gap"),
           start |-> Some(<<"9", "0">>), duration |-> Some(<<"0">>)]

\* A box with the bouquet, two channels around a marker, and a guide.
DeviceFull ==
    [services |-> <<Some(RefOther), None, Some(RefTv), Some(RefTvx)>>,
     members |-> <<EntryA, EntryMarker, EntryNoRef, EntryB>>,
     epgA |-> <<EvNews, EvBadDuration, EvNoStart>>,
     epgB |-> <<EvZero>>]

\* The same box after the bouquet was emptied.
DeviceEmptyBouquet ==
    [services |-> <<Some(RefOther), None, Some(RefTv), Some(RefTvx)>>,
     members |-> <<>>,
     epgA |-> <<EvNews, EvBadDuration, EvNoStart>>,
     epgB |-> <<EvZero>>]

\* A box on which no bouquet reference contains the configured name.
DeviceNoBouquet ==
    [services |-> <<Some(RefOther), None>>,
     members |-> <<>>,
     epgA |-> <<EvNews, EvBadDuration, EvNoStart>>,
     epgB |-> <<EvZero>>]

Devices == {DeviceFull, DeviceEmptyBouquet, DeviceNoBouquet}

\* The URLs app.py requests: the endpoint and the sRef query parameter
\* (None for the plain lineup query). urllib.parse.quote is injective, so
\* the reference stands for its quoted form.
UrlServices == [path |-> "/web/getservices", sRef |-> None]
UrlBouquet(bouquet_ref) == [path |-> "/web/getservices", sRef |-> Some(bouquet_ref)]
UrlEpg(service_ref) == [path |-> "/web/epgservice", sRef |-> Some(service_ref)]

\* The body the box answers a URL with, given its current data.
LiveBody(dev, url) ==
    IF url = UrlServices THEN dev.services
    ELSE IF url.path = "/web/getservices"
         THEN (IF Get(url.sRef) = RefTv THEN dev.members ELSE <<>>)
    ELSE IF Get(url.sRef) = ChA THEN dev.epgA
    ELSE IF Get(url.sRef) = ChB THEN dev.epgB
    ELSE <<>>

(***************************************************************************)
(* requests.get through requests_cache (install_cache, expire_after one    *)
(* day): a stored response answers the request without asking the box; a   *)
(* response fetched from the box is stored. An entry leaves the store      *)
(* when it expires.                                                        *)
(***************************************************************************)
Cached(store, url) == \E e \in store : e.url = url
CachedBody(store, url) == (CHOOSE e \in store : e.url = url).body

\* The possible outcomes of requests.get(url) followed by ET.fromstring:
\*   "ok"        a parsable body (from the store, else from the box)
\*   "neterr"    requests raises (connection refused, reset, ...)
\*   "parseerr"  the box answers an error page; ET.fromstring raises
\*   "stall"     the box accepts the connection and never answers
\* with the store as the call leaves it.
requests_get(store, dev, url) ==
    IF Cached(store, url)
    THEN {[kind |-> "ok", body |-> CachedBody(store, url), store |-> store]}
    ELSE {[kind |-> "ok", body |-> LiveBody(dev, url),
           store |-> store \cup {[url |-> url, body |-> LiveBody(dev, url)]}]}
         \cup {[kind |-> k, body |-> <<>>, store |-> store] :
                 k \in {"neterr", "parseerr", "stall"}}

(***************************************************************************)
(* The three fetch functions, as functions of the parsed response body.    *)
(***************************************************************************)
\* get_bouquet_reference: the first reference that contains bouquet_name.
\* findtext(..., default="") reads a missing reference as "".
RefText(o) == IF o = None THEN <<>> ELSE Get(o)

get_bouquet_reference(body, bouquet_name) ==
    IF \E k \in 1..Len(body) : contains(RefText(body[k]), bouquet_name)
    THEN LET k == CHOOSE j \in 1..Len(body) :
                      /\ contains(RefText(body[j]), bouquet_name)
                      /\ \A m \in 1..(j - 1) :
                            ~contains(RefText(body[m]), bouquet_name)
         IN  Some(RefText(body[k]))
    ELSE None

\* A prefix that every reference of the box has: "1:"
PlayablePrefixAnyType == <<"1", ":">>

\* The prefix get_channels_from_bouquet keeps: "1:0"
PlayablePrefix == <<"1", ":", "0">>

\* get_channels_from_bouquet: name and ref of the entries whose reference
\* starts with "1:0"; the "epg" key is not set yet (None).
RECURSIVE get_channels_from_bouquet(_)
get_channels_from_bouquet(body) ==
    IF body = <<>> THEN <<>>
    ELSE LET svc == Head(body)
             rest == get_channels_from_bouquet(Tail(body))
         IN  IF startswith(RefText(svc.ref), PlayablePrefix)
             THEN <<[name |-> svc.name, ref |-> Get(svc.ref), epg |-> None]>> \o rest
             ELSE rest

\* int(ev.findtext(...)): None stands for the TypeError (missing element)
\* or ValueError (not an integer) the try block catches.
IntText(o) == IF o = None THEN None ELSE py_int(Get(o), 10)

\* findtext(..., default=""): the text, "" when the element is missing.
TextOr(o) == IF o = None THEN "" ELSE Get(o)

\* fetch_epg: one event per entry whose start and duration parse.
RECURSIVE fetch_epg(_)
fetch_epg(body) ==
    IF body = <<>> THEN <<>>
    ELSE LET ev == Head(body)
             start == IntText(ev.start)
             duration == IntText(ev.duration)
             rest == fetch_epg(Tail(body))
         IN  IF start = None \/ duration = None THEN rest
             ELSE <<[title |-> TextOr(ev.title), desc |-> TextOr(ev.desc),
                     start |-> Get(start),
                     end |-> Get(start) + Get(duration)]>> \o rest

(***************************************************************************)
(* The two writers: the document each one produces, as a sequence of the   *)
(* chunks it writes to the file.                                           *)
(***************************************************************************)
\* datetime.fromtimestamp(t, tz=utc).strftime("%Y%m%d%H%M%S +0000"), as the
\* six fields it prints, for the timestamps of the model's guide data
\* (December 1969 and January 1970).
strftime(t) ==
    LET day == t \div 86400
        sec == t % 86400
    IN  <<IF day >= 0 THEN 1970 ELSE 1969,
          IF day >= 0 THEN 1 ELSE 12,
          IF day >= 0 THEN day + 1 ELSE 32 + day,
          sec \div 3600, (sec % 3600) \div 60, sec % 60>>

\* f"{base_url}/picon/{chan_id}.png"
PiconUrl(base_url, chan_id) == <<base_url, "/picon/", chan_id, ".png">>

\* The <programme> elements of one channel.
Programmes(chan_id, epg) ==
    [k \in 1..Len(epg) |->
        [tag |-> "programme",
         start |-> strftime(epg[k].start),
         stop |-> strftime(epg[k].end),
         channel |-> chan_id,
         title |-> epg[k].title,
         desc |-> epg[k].desc]]

\* The children of <tv>: per channel its <channel> element, then its programmes.
RECURSIVE TvChildren(_)
TvChildren(channels) ==
    IF channels = <<>> THEN <<>>
    ELSE LET ch == Head(channels)
             chan_id == safe_channel_id(DropLast(ch.ref))
         IN  <<[tag |-> "channel",
                id |-> chan_id,
                display_name |-> ch.name,
                icon |-> PiconUrl("http://host:port", chan_id)]>>
             \o Programmes(chan_id, Get(ch.epg))
             \o TvChildren(Tail(channels))

\* write_epg_xml: the XML declaration, then <tv> with its children (ElementTree
\* writes a childless <tv> as one self-closing tag).
write_epg_xml(channels) ==
    LET children == TvChildren(channels)
    IN  <<[tag |-> "?xml", encoding |-> "utf-8"]>>
        \o (IF children = <<>>
            THEN <<[tag |-> "tv/", generator |-> "enigma2jellyfin"]>>
            ELSE <<[tag |-> "tv", generator |-> "enigma2jellyfin"]>>
                 \o children \o <<[tag |-> "/tv"]>>)

\* f"{ch['name']}": a str as it is, None as the text "None".
FormatName(o) == IF o = None THEN "None" ELSE Get(o)

\* The lines write_m3u appends for one channel.
M3uEntry(ch) ==
    LET chan_id == safe_channel_id(DropLast(ch.ref))
        pid == extract_program_id(ch.ref)
    IN  <<[line |-> "#EXTVLCOPT:http-reconnect=true"],
          [line |-> "#EXTINF:-1",
           tvg_id |-> chan_id,
           tvg_name |-> FormatName(ch.name),
           tvg_logo |-> PiconUrl("http://host:streamport", chan_id),
           display |-> FormatName(ch.name)]>>
        \o (IF TruthyInt(pid)
            THEN <<[line |-> "#EXTVLCOPT:program", pid |-> Get(pid)]>>
            ELSE <<>>)
        \o <<[line |-> "stream", url |-> <<"http://host:streamport", "/", ch.ref>>]>>

RECURSIVE M3uEntries(_)
M3uEntries(channels) ==
    IF channels = <<>> THEN <<>>
    ELSE M3uEntry(Head(channels)) \o M3uEntries(Tail(channels))

\* write_m3u: the lines joined by "\n", "#EXTM3U" first.
write_m3u(channels) == <<[line |-> "#EXTM3U"]>> \o M3uEntries(channels)

(***************************************************************************)
(* Control flow.                                                           *)
(***************************************************************************)
\* The two threads that call generate_files: main() and the schedule_job thread.
Threads == {"main", "sched"}

\* generate_files with the XMLTV file written on entry.
steps_write_first == <<"write_xml", "resolve", "list", "fetch", "write_m3u">>

\* generate_files with the two writer calls swapped.
steps_m3u_first == <<"resolve", "list", "fetch", "write_m3u", "write_xml">>

\* generate_files: its steps in program order.
generate_files_steps == <<"resolve", "list", "fetch", "write_xml", "write_m3u">>

\* The step after step s; "return" after the last one.
NextStep(s) ==
    LET k == CHOOSE j \in 1..Len(generate_files_steps) : generate_files_steps[j] = s
    IN  IF k < Len(generate_files_steps) THEN generate_files_steps[k + 1] ELSE "return"

\* main() with the scheduler thread started before the initial generation.
main_spawn_first == <<"spawn", "generate", "serve">>

\* main(): its statements after CONFIG is set, in program order.
main_order == <<"generate", "spawn", "serve">>

\* The statement main() is at.
MainAt == main_order[mainPc]

\* schedule_job without the try/except: an exception ends the thread.
schedule_job_uncaught(outcome) ==
    IF outcome \in {"neterr", "parseerr", "ioerr"} THEN "dead" ELSE "sleep"

\* schedule_job: where the loop goes when generate_files has ended with the
\* given outcome. The try/except catches every Exception, so always to sleep.
schedule_job_next(outcome) == "sleep"

\* The outcomes of a generate_files call that are failures or aborts.
Failures == {"notfound", "neterr", "parseerr", "ioerr"}

\* A frame of generate_files outside a call. Until the caller's next
\* statement the fields keep what the call left: outcome, the step an
\* exception was raised in, the channels it had gathered, and the two output
\* files as they were when it was entered.
IdleFrame ==
    [pc |-> "idle", bouquet_ref |-> None, channels |-> <<>>, i |-> 1,
     opened |-> FALSE, doc |-> <<>>, outcome |-> "none", failedAt |-> "none",
     before |-> <<None, None>>]

\* The frame after an exception (or the not-found return) in step s.
Abort(f, outcome, s) ==
    [f EXCEPT !.pc = "idle", !.opened = FALSE, !.doc = <<>>,
              !.outcome = outcome, !.failedAt = s]

\* Advance with "if not channels: return" after the fetch loop.
AdvanceSkipEmpty(f, s) ==
    IF NextStep(s) = "return" \/ (s = "fetch" /\ f.channels = <<>>)
    THEN [f EXCEPT !.pc = "idle", !.outcome = "ok"]
    ELSE [f EXCEPT !.pc = NextStep(s)]

\* The frame after step s has completed.
Advance(f, s) ==
    IF NextStep(s) = "return"
    THEN [f EXCEPT !.pc = "idle", !.outcome = "ok"]
    ELSE [f EXCEPT !.pc = NextStep(s)]

\* Thread t's frame becomes f; when that ends the call, the caller goes on:
\* main() to its next statement, schedule_job to time.sleep.
Commit(t, f) ==
    /\ run' = [run EXCEPT ![t] = f]
    /\ IF f.pc # "idle" THEN UNCHANGED <<mainPc, schedPc>>
       ELSE IF t = "main" THEN mainPc' = mainPc + 1 /\ UNCHANGED schedPc
       ELSE schedPc' = schedule_job_next(f.outcome) /\ UNCHANGED mainPc

\* Thread t is at its call of generate_files.
AtCall(t) ==
    /\ run[t].pc = "idle"
    /\ IF t = "main" THEN MainAt = "generate" ELSE schedPc = "call"

\* No request was answered in the last step.
NoResponse == [route |-> "", status |-> 0, body |-> None]

Init ==
    /\ mainPc = 1
    /\ schedPc = "unstarted"
    /\ run = [t \in Threads |-> IdleFrame]
    /\ epgFile = None
    /\ m3uFile = None
    /\ device \in Devices
    /\ cache = {}
    /\ response = NoResponse
    /\ arg = <<>>
    /\ ret = None

(***************************************************************************)
(* generate_files, step by step, in thread t.                              *)
(***************************************************************************)
\* Entry: the frame is fresh.
Call(t) ==
    /\ AtCall(t)
    /\ run' = [run EXCEPT ![t] =
                 [IdleFrame EXCEPT !.pc = generate_files_steps[1],
                                   !.outcome = "running",
                                   !.before = <<epgFile, m3uFile>>]]
    /\ response' = NoResponse
    /\ UNCHANGED <<mainPc, schedPc, epgFile, m3uFile, device, cache, arg, ret>>

\* bouquet_ref = get_bouquet_reference(...); if not bouquet_ref: return
Resolve(t) ==
    /\ run[t].pc = "resolve"
    /\ \E r \in requests_get(cache, device, UrlServices) :
         /\ cache' = r.store
         /\ \/ /\ r.kind = "ok"
               /\ LET ref == get_bouquet_reference(r.body, BouquetName)
                  IN  IF TruthyStr(ref)
                      THEN Commit(t, [Advance(run[t], "resolve") EXCEPT !.bouquet_ref = ref])
                      ELSE Commit(t, Abort(run[t], "notfound", "resolve"))
            \/ /\ r.kind \in {"neterr", "parseerr"}
               /\ Commit(t, Abort(run[t], r.kind, "resolve"))
            \/ /\ r.kind = "stall"
               /\ Commit(t, [run[t] EXCEPT !.pc = "stalled"])
    /\ response' = NoResponse
    /\ UNCHANGED <<epgFile, m3uFile, device, arg, ret>>

\* channels = get_channels_from_bouquet(host, port, bouquet_ref)
ListChannels(t) ==
    /\ run[t].pc = "list"
    /\ \E r \in requests_get(cache, device, UrlBouquet(Get(run[t].bouquet_ref))) :
         /\ cache' = r.store
         /\ \/ /\ r.kind = "ok"
               /\ Commit(t, [Advance(run[t], "list") EXCEPT
                                 !.channels = get_channels_from_bouquet(r.body),
                                 !.i = 1])
            \/ /\ r.kind \in {"neterr", "parseerr"}
               /\ Commit(t, Abort(run[t], r.kind, "list"))
            \/ /\ r.kind = "stall"
               /\ Commit(t, [run[t] EXCEPT !.pc = "stalled"])
    /\ response' = NoResponse
    /\ UNCHANGED <<epgFile, m3uFile, device, arg, ret>>

\* for ch in channels: ch["epg"] = fetch_epg(host, port, ch["ref"])
\* One iteration; an exception of fetch_epg leaves generate_files.
FetchEpg(t) ==
    /\ run[t].pc = "fetch"
    /\ run[t].i <= Len(run[t].channels)
    /\ \E r \in requests_get(cache, device, UrlEpg(run[t].channels[run[t].i].ref)) :
         /\ cache' = r.store
         /\ \/ /\ r.kind = "ok"
               /\ Commit(t, [run[t] EXCEPT !.channels[run[t].i].epg = Some(fetch_epg(r.body)),
                                           !.i = run[t].i + 1])
            \/ /\ r.kind \in {"neterr", "parseerr"}
               /\ Commit(t, Abort(run[t], r.kind, "fetch"))
            \/ /\ r.kind = "stall"
               /\ Commit(t, [run[t] EXCEPT !.pc = "stalled"])
    /\ response' = NoResponse
    /\ UNCHANGED <<epgFile, m3uFile, device, arg, ret>>

\* The loop is exhausted.
FetchDone(t) ==
    /\ run[t].pc = "fetch"
    /\ run[t].i > Len(run[t].channels)
    /\ Commit(t, Advance(run[t], "fetch"))
    /\ response' = NoResponse
    /\ UNCHANGED <<epgFile, m3uFile, device, cache, arg, ret>>

\* The strict prefixes of doc that are longer than what the file holds: what
\* a flush of the write buffer can leave on disk before the file is closed.
Min(a, b) == IF a < b THEN a ELSE b

Flushes(file, doc) ==
    {SubSeq(doc, 1, n) : n \in (Len(Get(file)) + 1)..Min(MaxFlush, Len(doc) - 1)}

\* write_epg_xml: the element tree is built, then tree.write(filename, ...)
\* opens the file for writing, which truncates it (or raises OSError and
\* leaves it alone) ...
WriteXmlOpen(t) ==
    /\ run[t].pc = "write_xml"
    /\ ~run[t].opened
    /\ \/ /\ UNCHANGED epgFile
          /\ Commit(t, Abort(run[t], "ioerr", "write_xml"))
       \/ /\ epgFile' = Some(<<>>)
          /\ Commit(t, [run[t] EXCEPT !.opened = TRUE,
                                      !.doc = write_epg_xml(run[t].channels)])
    /\ response' = NoResponse
    /\ UNCHANGED <<m3uFile, device, cache, arg, ret>>

\* ... then serializes the tree into it: the write may raise part-way, part
\* of the document may reach the disk before the rest, or the write
\* completes and the file is closed.
WriteXmlData(t) ==
    /\ run[t].pc = "write_xml"
    /\ run[t].opened
    /\ \/ /\ UNCHANGED epgFile
          /\ Commit(t, Abort(run[t], "ioerr", "write_xml"))
       \/ /\ epgFile' \in {Some(p) : p \in Flushes(epgFile, run[t].doc)}
          /\ Commit(t, run[t])
       \/ /\ epgFile' = Some(run[t].doc)
          /\ Commit(t, [Advance(run[t], "write_xml") EXCEPT !.opened = FALSE,
                                                           !.doc = <<>>])
    /\ response' = NoResponse
    /\ UNCHANGED <<m3uFile, device, cache, arg, ret>>

\* write_m3u: the lines are built, then open(filename, "w") truncates the
\* file (or raises) ...
WriteM3uOpen(t) ==
    /\ run[t].pc = "write_m3u"
    /\ ~run[t].opened
    /\ \/ /\ UNCHANGED m3uFile
          /\ Commit(t, Abort(run[t], "ioerr", "write_m3u"))
       \/ /\ m3uFile' = Some(<<>>)
          /\ Commit(t, [run[t] EXCEPT !.opened = TRUE,
                                      !.doc = write_m3u(run[t].channels)])
    /\ response' = NoResponse
    /\ UNCHANGED <<epgFile, device, cache, arg, ret>>

\* ... then f.write("\n".join(lines)) and the close at the end of the with block.
WriteM3uData(t) ==
    /\ run[t].pc = "write_m3u"
    /\ run[t].opened
    /\ \/ /\ UNCHANGED m3uFile
          /\ Commit(t, Abort(run[t], "ioerr", "write_m3u"))
       \/ /\ m3uFile' \in {Some(p) : p \in Flushes(m3uFile, run[t].doc)}
          /\ Commit(t, run[t])
       \/ /\ m3uFile' = Some(run[t].doc)
          /\ Commit(t, [Advance(run[t], "write_m3u") EXCEPT !.opened = FALSE,
                                                           !.doc = <<>>])
    /\ response' = NoResponse
    /\ UNCHANGED <<epgFile, device, cache, arg, ret>>

\* Every step of generate_files in thread t.
GenerateStep(t) ==
    \/ Call(t)
    \/ Resolve(t)
    \/ ListChannels(t)
    \/ FetchEpg(t)
    \/ FetchDone(t)
    \/ WriteXmlOpen(t)
    \/ WriteXmlData(t)
    \/ WriteM3uOpen(t)
    \/ WriteM3uData(t)

(***************************************************************************)
(* main(), schedule_job and the two routes.                                *)
(***************************************************************************)
\* thread = threading.Thread(target=schedule_job, ...); thread.start()
\* The frame of the startup call is gone.
Spawn ==
    /\ MainAt = "spawn"
    /\ mainPc' = mainPc + 1
    /\ schedPc' = "call"
    /\ run' = [run EXCEPT !["main"] = IdleFrame]
    /\ response' = NoResponse
    /\ UNCHANGED <<epgFile, m3uFile, device, cache, arg, ret>>

\* time.sleep(interval_minutes * 60) returns; the loop's last call is over
\* and its frame gone.
Wake ==
    /\ schedPc = "sleep"
    /\ schedPc' = "call"
    /\ run' = [run EXCEPT !["sched"] = IdleFrame]
    /\ response' = NoResponse
    /\ UNCHANGED <<mainPc, epgFile, m3uFile, device, cache, arg, ret>>

\* send_file(path) inside try/except: the file's content, or 404.
send_file(route, file) ==
    IF file = None
    THEN [route |-> route, status |-> 404, body |-> None]
    ELSE [route |-> route, status |-> 200, body |-> file]

\* GET /epg.xml while app.run is serving.
serve_epg ==
    /\ MainAt = "serve"
    /\ response' = send_file("/epg.xml", epgFile)
    /\ UNCHANGED <<mainPc, schedPc, run, epgFile, m3uFile, device, cache, arg, ret>>

\* GET /playlist.m3u while app.run is serving.
serve_m3u ==
    /\ MainAt = "serve"
    /\ response' = send_file("/playlist.m3u", m3uFile)
    /\ UNCHANGED <<mainPc, schedPc, run, epgFile, m3uFile, device, cache, arg, ret>>

(***************************************************************************)
(* The environment.                                                        *)
(***************************************************************************)
\* The box's lineup or guide changes.
DeviceChange ==
    /\ device' \in Devices \ {device}
    /\ response' = NoResponse
    /\ UNCHANGED <<mainPc, schedPc, run, epgFile, m3uFile, cache, arg, ret>>

\* A stored response is older than expire_after and leaves the store.
CacheExpire ==
    /\ \E e \in cache : cache' = cache \ {e}
    /\ response' = NoResponse
    /\ UNCHANGED <<mainPc, schedPc, run, epgFile, m3uFile, device, arg, ret>>

Next ==
    \/ \E t \in Threads : GenerateStep(t)
    \/ Spawn
    \/ Wake
    \/ serve_epg
    \/ serve_m3u
    \/ DeviceChange
    \/ CacheExpire

Spec == Init /\ [][Next]_vars

\* Each thread takes its next step eventually: the operating system
\* schedules both threads, and time.sleep returns.
MainStep == GenerateStep("main") \/ Spawn
SchedStep == GenerateStep("sched") \/ Wake

FairSpec == Init /\ [][Next]_vars /\ WF_vars(MainStep) /\ WF_vars(SchedStep)

(***************************************************************************)
(* The codec on its own: a reference is drawn, then a codec function is    *)
(* applied to it.                                                          *)
(***************************************************************************)
Alphabet == {"0", "A", "f", "g", ":", "-"}

\* Every str over Alphabet of length at most MaxRefLen.
RefStrings == UNION {[1..n -> Alphabet] : n \in 0..MaxRefLen}

InitCodec ==
    /\ mainPc = 1
    /\ schedPc = "unstarted"
    /\ run = [t \in Threads |-> IdleFrame]
    /\ epgFile = None
    /\ m3uFile = None
    /\ device = DeviceFull
    /\ cache = {}
    /\ response = NoResponse
    /\ arg \in RefStrings
    /\ ret = None

\* ret = extract_program_id(arg)
CallExtractProgramId ==
    /\ ret = None
    /\ ret' = Some(extract_program_id(arg))
    /\ UNCHANGED <<mainPc, schedPc, run, epgFile, m3uFile, device, cache, response, arg>>

NextCodec == CallExtractProgramId

SpecCodec == InitCodec /\ [][NextCodec]_vars

(***************************************************************************)
(* Properties.                                                             *)
(***************************************************************************)
\* The call of thread t has ended and its frame is still there.
Ended(t) == run[t].pc = "idle" /\ run[t].outcome # "none"

\* The call of thread t ended before the write steps: not-found, or an
\* exception of bouquet resolution or of channel listing.
EndedBeforeWrites(t) ==
    /\ Ended(t)
    /\ \/ run[t].outcome = "notfound"
       \/ /\ run[t].outcome \in {"neterr", "parseerr"}
          /\ run[t].failedAt \in {"resolve", "list"}

\* C1: a run that ends before the write steps (bouquet not found, or bouquet
\* resolution or channel listing failed) leaves both output files exactly as
\* they were when it was entered, absent files included.
C1_AbortBeforeWritesKeepsFiles ==
    \A t \in Threads :
        EndedBeforeWrites(t) => <<epgFile, m3uFile>> = run[t].before

\* C1 witness: a run found no bouquet while both files of an earlier run
\* existed, and they are still what they were.
C1_Witness ==
    \E t \in Threads :
        /\ Ended(t)
        /\ run[t].outcome = "notfound"
        /\ run[t].before[1] # None
        /\ run[t].before[2] # None
        /\ <<epgFile, m3uFile>> = run[t].before

\* The channels with "epg" set to no events wherever no events were fetched.
WithNoEvents(channels) ==
    [k \in 1..Len(channels) |->
        IF channels[k].epg = None
        THEN [channels[k] EXCEPT !.epg = Some(<<>>)]
        ELSE channels[k]]

\* C2: when the EPG fetch of one channel fails and that of another channel
\* succeeded, the run still ends with both files written: the channel that
\* was fetched with its events, the failing one with none.
C2_FetchFailureDoesNotAbort ==
    \A t \in Threads :
        (/\ Ended(t)
         /\ run[t].failedAt = "fetch"
         /\ \E k \in 1..Len(run[t].channels) : run[t].channels[k].epg # None)
        => /\ epgFile = Some(write_epg_xml(WithNoEvents(run[t].channels)))
           /\ m3uFile = Some(write_m3u(WithNoEvents(run[t].channels)))

\* Every channel list a run can have gathered when it writes: the playable
\* entries of some lineup, each with the events of its guide.
GatheredFrom(dev) ==
    LET chs == get_channels_from_bouquet(dev.members)
    IN  [k \in 1..Len(chs) |->
            [chs[k] EXCEPT !.epg = Some(fetch_epg(LiveBody(dev, UrlEpg(chs[k].ref))))]]

\* The complete files a write can produce.
CompleteEpgFiles == {Some(write_epg_xml(GatheredFrom(d))) : d \in Devices}
CompleteM3uFiles == {Some(write_m3u(GatheredFrom(d))) : d \in Devices}

\* A run has the file behind the route open for writing.
BeingWritten(route) ==
    \E t \in Threads :
        /\ run[t].opened
        /\ run[t].pc = (IF route = "/epg.xml" THEN "write_xml" ELSE "write_m3u")

\* C3: a request to /epg.xml or /playlist.m3u that arrives while a run is
\* writing the file is answered with a complete file (the previous one or
\* the new one), never with an empty or partly written one.
C3_RequestsSeeCompleteFiles ==
    (response.status = 200 /\ BeingWritten(response.route)) =>
        IF response.route = "/epg.xml"
        THEN response.body \in CompleteEpgFiles
        ELSE response.body \in CompleteM3uFiles

\* Every channel of the frame has its "epg" key set.
AllFetched(f) == \A k \in 1..Len(f.channels) : f.channels[k].epg # None

\* C4: however a run ends, either both files hold that run's output or both
\* are what they were when the run was entered.
C4_BothFilesOrNeither ==
    \A t \in Threads :
        Ended(t) =>
            \/ <<epgFile, m3uFile>> = run[t].before
            \/ /\ AllFetched(run[t])
               /\ epgFile = Some(write_epg_xml(run[t].channels))
               /\ m3uFile = Some(write_m3u(run[t].channels))

\* C5: the startup run of main and the runs of the schedule_job thread are
\* never in progress at the same time.
C5_RunsNeverOverlap ==
    ~(run["main"].pc # "idle" /\ run["sched"].pc # "idle")

\* C5 witness: a scheduled run is writing while main, its startup run long
\* over, serves requests.
C5_Witness ==
    /\ MainAt = "serve"
    /\ run["sched"].pc = "write_m3u"
    /\ run["main"].pc = "idle"

\* C6: no failed or aborted run ends the scheduler thread or the server.
\* After a failed scheduled run the loop sleeps and then starts the next
\* run; after a failed startup run main starts the thread, whose first run
\* starts, and reaches app.run; once serving, main serves for ever.
C6_FailureNeverStopsScheduler ==
    /\ [](schedPc # "dead")
    /\ (schedPc = "sleep" /\ run["sched"].outcome \in Failures)
           ~> (schedPc = "call" /\ run["sched"].pc # "idle")
    /\ (MainAt = "spawn" /\ run["main"].outcome \in Failures)
           ~> (MainAt = "serve" /\ run["sched"].pc # "idle")
    /\ [][MainAt = "serve" => MainAt' = "serve"]_vars

\* C6 witness: the scheduler sleeps after a run that failed while writing,
\* and the server is up.
C6_Witness ==
    /\ schedPc = "sleep"
    /\ run["sched"].outcome = "ioerr"
    /\ MainAt = "serve"

\* C7: a run resolves the bouquet, lists the channels, fetches every
\* channel's EPG, writes the XMLTV file and then the M3U file: whenever an
\* output file changes, a run is in the matching write step with every listed
\* channel fetched, and when the M3U file changes the XMLTV file already
\* holds that run's document.
C7_StepsInOrder ==
    [][/\ \A t \in Threads :
             run[t].pc \in {"list", "fetch", "write_xml", "write_m3u"}
                 => TruthyStr(run[t].bouquet_ref)
       /\ epgFile' # epgFile =>
             \E t \in Threads :
                 /\ run[t].pc = "write_xml"
                 /\ AllFetched(run[t])
                 /\ run[t].i > Len(run[t].channels)
                 /\ m3uFile = run[t].before[2]
       /\ m3uFile' # m3uFile =>
             \E t \in Threads :
                 /\ run[t].pc = "write_m3u"
                 /\ AllFetched(run[t])
                 /\ run[t].i > Len(run[t].channels)
                 /\ epgFile = Some(write_epg_xml(run[t].channels))]_vars

\* C7 witness: a run over two channels has ended with both files written.
C7_Witness ==
    \E t \in Threads :
        /\ Ended(t)
        /\ run[t].outcome = "ok"
        /\ Len(run[t].channels) = 2
        /\ epgFile = Some(write_epg_xml(run[t].channels))
        /\ m3uFile = Some(write_m3u(run[t].channels))

\* C8: a run whose bouquet resolved and whose channel list is empty is not
\* an error: unless a write itself fails, it ends with both files written,
\* the XMLTV document without channel or programme elements and the M3U
\* file with the #EXTM3U line alone.
C8_EmptyLineupWritesBothFiles ==
    \A t \in Threads :
        (/\ Ended(t)
         /\ ~EndedBeforeWrites(t)
         /\ run[t].channels = <<>>)
        => \/ run[t].outcome = "ioerr"
           \/ /\ run[t].outcome = "ok"
              /\ epgFile = Some(<<[tag |-> "?xml", encoding |-> "utf-8"],
                                  [tag |-> "tv/", generator |-> "enigma2jellyfin"]>>)
              /\ m3uFile = Some(<<[line |-> "#EXTM3U"]>>)

\* C8 witness: a run over an empty bouquet has ended well, replacing the
\* files an earlier run over two channels had written.
C8_Witness ==
    \E t \in Threads :
        /\ Ended(t)
        /\ run[t].outcome = "ok"
        /\ run[t].channels = <<>>
        /\ run[t].before[2] \in CompleteM3uFiles \ {Some(<<[line |-> "#EXTM3U"]>>)}
        /\ m3uFile = Some(<<[line |-> "#EXTM3U"]>>)

\* C9: a run takes everything from the box as it is during that run: the
\* bouquet reference it resolves (or fails to find), the channels it lists
\* and the events it fetches are those the box holds at that moment.
C9_RunsReadTheLiveDevice ==
    [][\A t \in Threads :
          /\ (run[t].pc = "resolve" /\ run'[t].pc = "list")
                => run'[t].bouquet_ref
                       = get_bouquet_reference(device.services, BouquetName)
          /\ (run[t].pc = "resolve" /\ run'[t].outcome = "notfound")
                => ~TruthyStr(get_bouquet_reference(device.services, BouquetName))
          /\ (run[t].pc = "list" /\ run'[t].pc = "fetch")
                => run'[t].channels
                       = get_channels_from_bouquet(
                             LiveBody(device, UrlBouquet(Get(run[t].bouquet_ref))))
          /\ (run[t].pc = "fetch" /\ run'[t].pc = "fetch" /\ run'[t].i > run[t].i)
                => run'[t].channels[run[t].i].epg
                       = Some(fetch_epg(
                             LiveBody(device, UrlEpg(run[t].channels[run[t].i].ref))))
      ]_vars

\* The positions of the colons of s, and its fields counted from 0: field k
\* lies between the k-th colon (position 0 for k = 0) and the next one (or
\* the end of s).
Colons(s) == {k \in 1..Len(s) : s[k] = ":"}
FieldCount(s) == Cardinality(Colons(s)) + 1
FieldStart(s, k) ==
    IF k = 0 THEN 1
    ELSE 1 + CHOOSE p \in Colons(s) : Cardinality({q \in Colons(s) : q <= p}) = k
FieldEnd(s, k) ==
    IF k = FieldCount(s) - 1 THEN Len(s)
    ELSE (CHOOSE p \in Colons(s) : Cardinality({q \in Colons(s) : q <= p}) = k + 1) - 1
Field(s, k) == SubSeq(s, FieldStart(s, k), FieldEnd(s, k))

\* A hexadecimal numeral: an optional sign, then one or more hex digits.
HexDigit(c) == c \in Digits \cup HexLetters
Unsigned(s) == IF Len(s) > 0 /\ s[1] \in {"+", "-"} THEN Tail(s) ELSE s
IsHexNumeral(s) ==
    /\ Len(Unsigned(s)) > 0
    /\ \A k \in 1..Len(Unsigned(s)) : HexDigit(Unsigned(s)[k])

\* Its value: the sum of digit * 16^place.
RECURSIVE Pow16(_)
Pow16(n) == IF n = 0 THEN 1 ELSE 16 * Pow16(n - 1)
RECURSIVE SumPlaces(_, _)
SumPlaces(u, k) ==
    IF k > Len(u) THEN 0
    ELSE DigitValue(u[k]) * Pow16(Len(u) - k) + SumPlaces(u, k + 1)
HexNumeralValue(s) ==
    IF Len(s) > 0 /\ s[1] = "-"
    THEN 0 - SumPlaces(Unsigned(s), 1)
    ELSE SumPlaces(Unsigned(s), 1)

\* C10: extract_program_id(ref) is the value of field 3 of ref read as a
\* hexadecimal numeral, zero included, when ref has at least 4 fields and
\* field 3 is such a numeral; otherwise it is None.
C10_ExtractProgramId ==
    ret # None =>
        IF FieldCount(arg) >= 4 /\ IsHexNumeral(Field(arg, 3))
        THEN Get(ret) = Some(HexNumeralValue(Field(arg, 3)))
        ELSE Get(ret) = None

\* C10 witness: a reference whose field 3 is "0" gave the id 0, not None.
C10_Witness ==
    /\ FieldCount(arg) >= 4
    /\ Field(arg, 3) = <<"0">>
    /\ ret = Some(Some(0))

\* The timestamp a reader of the XMLTV file gets back from the six fields of
\* a start or stop attribute.
strptime(f) ==
    (IF f[1] >= 1970 THEN f[3] - 1 ELSE f[3] - 32) * 86400
        + f[4] * 3600 + f[5] * 60 + f[6]

\* The chunks of a file, none when the file is absent.
Chunks(file) == IF file = None THEN <<>> ELSE Get(file)

\* C11: every event a run has fetched ends after it starts, and so does
\* every programme element in the XMLTV file: no zero-length or
\* negative-length event is kept.
C11_EventsEndAfterStart ==
    /\ \A t \in Threads : \A k \in 1..Len(run[t].channels) :
          run[t].channels[k].epg # None =>
              \A j \in 1..Len(Get(run[t].channels[k].epg)) :
                  Get(run[t].channels[k].epg)[j].end
                      > Get(run[t].channels[k].epg)[j].start
    /\ \A k \in 1..Len(Chunks(epgFile)) :
          Chunks(epgFile)[k].tag = "programme" =>
              strptime(Chunks(epgFile)[k].stop) > strptime(Chunks(epgFile)[k].start)

(***************************************************************************)
(* The two writers on their own: a channel list is drawn, then both        *)
(* writers are applied to it, as generate_files does at its end.           *)
(***************************************************************************)
\* Longest list (of channels, of lineup entries) the specifications of
\* single functions enumerate.
MaxEntries == 3

WriterAlphabet == {"0", "F", ":", "é"}

\* Every str over WriterAlphabet of length at most MaxRefLen.
WriterRefs == UNION {[1..n -> WriterAlphabet] : n \in 0..MaxRefLen}

\* A third channel, "1:0:1:0:6": it differs from ChB in its last character.
ChC == <<"1", ":", "0", ":", "1", ":", "0", ":", "6">>

\* The channels of the enumerated lists: a reference, and a guide as
\* fetch_epg returns it.
SampleChannels ==
    {[name |-> Some("Das Erste"), ref |-> r, epg |-> Some(g)] :
        r \in {ChA, ChB, ChC},
        g \in {<<>>, fetch_epg(<<EvNews>>), fetch_epg(<<EvNews, EvZero>>)}}

\* One channel with any reference, or up to MaxEntries sample channels.
WriterInputs ==
    {<<[name |-> Some("Das Erste"), ref |-> r, epg |-> Some(<<>>)]>> : r \in WriterRefs}
    \cup UNION {[1..n -> SampleChannels] : n \in 0..MaxEntries}

InitWriters ==
    /\ mainPc = 1
    /\ schedPc = "unstarted"
    /\ run = [t \in Threads |-> IdleFrame]
    /\ epgFile = None
    /\ m3uFile = None
    /\ device = DeviceFull
    /\ cache = {}
    /\ response = NoResponse
    /\ arg \in WriterInputs
    /\ ret = None

\* write_epg_xml(channels, ...); write_m3u(channels, ...)
CallWriters ==
    /\ ret = None
    /\ ret' = Some([xml |-> write_epg_xml(arg), m3u |-> write_m3u(arg)])
    /\ UNCHANGED <<mainPc, schedPc, run, epgFile, m3uFile, device, cache, response, arg>>

NextWriters == CallWriters

SpecWriters == InitWriters /\ [][NextWriters]_vars

\* The <channel> elements of an XMLTV document and the #EXTINF lines of a
\* playlist, in file order: one of each per channel.
ChannelElements(doc) == SelectSeq(doc, LAMBDA c : c.tag = "channel")
ExtinfLines(doc) == SelectSeq(doc, LAMBDA c : c.line = "#EXTINF:-1")

AsciiLetters ==
    {"a", "b", "c", "d", "e", "f", "g", "h", "i", "j", "k", "l", "m",
     "n", "o", "p", "q", "r", "s", "t", "u", "v", "w", "x", "y", "z",
     "A", "B", "C", "D", "E", "F", "G", "H", "I", "J", "K", "L", "M",
     "N", "O", "P", "Q", "R", "S", "T", "U", "V", "W", "X", "Y", "Z"}

\* The characters of [A-Za-z0-9_].
IdChars == Digits \cup AsciiLetters \cup {"_"}

\* C12: the id of a channel is the same in both files (and, being a function
\* of the reference alone, in every run), and every character of it is one
\* of [A-Za-z0-9_].
C12_ChannelIdCharset ==
    ret # None =>
        /\ Len(ChannelElements(Get(ret).xml)) = Len(arg)
        /\ Len(ExtinfLines(Get(ret).m3u)) = Len(arg)
        /\ \A k \in 1..Len(arg) :
              LET id == ChannelElements(Get(ret).xml)[k].id
              IN  /\ ExtinfLines(Get(ret).m3u)[k].tvg_id = id
                  /\ \A j \in 1..Len(id) : id[j] \in IdChars

\* What a reader of an XMLTV document recovers: the set of channel ids, and
\* for an id the (title, start, end) of the <programme> elements that name
\* it, in document order.
ParsedChannelIds(doc) ==
    {ChannelElements(doc)[k].id : k \in 1..Len(ChannelElements(doc))}
ParsedEvents(doc, id) ==
    LET ps == SelectSeq(doc, LAMBDA c : c.tag = "programme" /\ c.channel = id)
    IN  [j \in 1..Len(ps) |->
            <<ps[j].title, strptime(ps[j].start), strptime(ps[j].stop)>>]

\* The (title, start, end) of the events of one channel of a channel list.
EventTuples(ch) ==
    [j \in 1..Len(Get(ch.epg)) |->
        <<Get(ch.epg)[j].title, Get(ch.epg)[j].start, Get(ch.epg)[j].end>>]

\* C13: re-parsing the XMLTV document written for a channel list gives one
\* channel id per channel, and under the id of each channel exactly the
\* (title, start, end) tuples of that channel's events, in order, also when
\* two channels of the list derive the same id.
C13_XmltvRoundTrip ==
    ret # None =>
        LET doc == Get(ret).xml
        IN  /\ Len(ChannelElements(doc)) = Len(arg)
            /\ ParsedChannelIds(doc)
                   = {ChannelElements(doc)[k].id : k \in 1..Len(arg)}
            /\ \A k \in 1..Len(arg) :
                  ParsedEvents(doc, ChannelElements(doc)[k].id) = EventTuples(arg[k])

\* The values of the "#EXTVLCOPT:program=" lines of a playlist, in file order.
ProgramLines(doc) ==
    LET ps == SelectSeq(doc, LAMBDA c : c.line = "#EXTVLCOPT:program")
    IN  [j \in 1..Len(ps) |-> ps[j].pid]

\* The program ids extract_program_id returns for the channels of a list,
\* those without a value left out.
RECURSIVE ProgramIds(_)
ProgramIds(channels) ==
    IF channels = <<>> THEN <<>>
    ELSE (IF extract_program_id(Head(channels).ref) = None THEN <<>>
          ELSE <<Get(extract_program_id(Head(channels).ref))>>)
         \o ProgramIds(Tail(channels))

\* C15: the playlist holds a "#EXTVLCOPT:program=<id>" line for exactly the
\* channels for whose reference extract_program_id returns a value, the
\* value 0 included, with that value.
C15_ProgramLineIffProgramId ==
    ret # None => ProgramLines(Get(ret).m3u) = ProgramIds(arg)

\* A character that counts as alphanumeric.
Alphanumeric(c) == c \in Digits \cup AsciiLetters \cup {"é"}

\* A reference without its trailing colon-delimited field: everything before
\* its last colon.
WithoutTrailingField(s) ==
    SubSeq(s, 1, (CHOOSE p \in Colons(s) : \A q \in Colons(s) : q <= p) - 1)

\* C19: for a reference with a colon, the channel id in both files is the
\* reference without its trailing field (empty or not), every character
\* that is not alphanumeric replaced by "_".
C19_ChannelIdDropsTrailingField ==
    ret # None =>
        \A k \in 1..Len(arg) :
            Colons(arg[k].ref) # {} =>
                LET w == WithoutTrailingField(arg[k].ref)
                    id == [j \in 1..Len(w) |->
                              IF Alphanumeric(w[j]) THEN w[j] ELSE "_"]
                IN  /\ ChannelElements(Get(ret).xml)[k].id = id
                    /\ ExtinfLines(Get(ret).m3u)[k].tvg_id = id

\* C14: a write that fails after a complete file was at its path leaves
\* that file as it was: when a run ends with an I/O error of write_epg_xml
\* the XMLTV file is the one the run found, and likewise the playlist for
\* write_m3u.
C14_FailedWriteKeepsPreviousFile ==
    \A t \in Threads :
        (Ended(t) /\ run[t].outcome = "ioerr") =>
            /\ (run[t].failedAt = "write_xml" /\ run[t].before[1] \in CompleteEpgFiles)
                   => epgFile = run[t].before[1]
            /\ (run[t].failedAt = "write_m3u" /\ run[t].before[2] \in CompleteM3uFiles)
                   => m3uFile = run[t].before[2]

\* C16: a box that stops answering cannot block generation for ever: every
\* run that has started ends, main reaches app.run, and after each sleep of
\* the scheduler its next run starts.
C16_StalledDeviceCannotBlock ==
    /\ \A t \in Threads : (run[t].pc # "idle") ~> (run[t].pc = "idle")
    /\ <>(MainAt = "serve")
    /\ (schedPc = "sleep") ~> (run["sched"].pc # "idle")

\* The references of the playable entries some lineup lists without a name,
\* and the channel ids both writers derive for them.
NamelessRefs ==
    {Get(d.members[k].ref) : <<d, k>> \in
        {p \in Devices \X (1..4) :
            /\ p[2] <= Len(p[1].members)
            /\ p[1].members[p[2]].name = None
            /\ p[1].members[p[2]].ref # None
            /\ startswith(Get(p[1].members[p[2]].ref), <<"1", ":", "0">>)}}
NamelessIds == {safe_channel_id(DropLast(r)) : r \in NamelessRefs}

\* C18: a channel whose entry has no name is listed with the name "", and
\* both files show it with an empty name: an empty display-name element
\* (text None and text "" are written alike) in the XMLTV file, and
\* tvg-name="" and an empty display name in the playlist.
C18_AbsentNameIsEmpty ==
    /\ \A t \in Threads : \A k \in 1..Len(run[t].channels) :
          run[t].channels[k].ref \in NamelessRefs =>
              run[t].channels[k].name = Some("")
    /\ \A k \in 1..Len(Chunks(epgFile)) :
          (Chunks(epgFile)[k].tag = "channel" /\ Chunks(epgFile)[k].id \in NamelessIds)
              => Chunks(epgFile)[k].display_name \in {None, Some("")}
    /\ \A k \in 1..Len(Chunks(m3uFile)) :
          (Chunks(m3uFile)[k].line = "#EXTINF:-1" /\ Chunks(m3uFile)[k].tvg_id \in NamelessIds)
              => Chunks(m3uFile)[k].tvg_name = "" /\ Chunks(m3uFile)[k].display = ""

(***************************************************************************)
(* Channel listing on its own: the body of a bouquet query is drawn, then  *)
(* the channels are listed and written, as generate_files does with a box  *)
(* whose guide is empty.                                                   *)
(***************************************************************************)
\* A sub-bouquet entry: its reference is the bouquet reference "1:7:tv".
EntrySub == [name |-> Some("Sub"), ref |-> Some(RefTv)]

LineupEntries == {EntryA, EntryMarker, EntryB, EntryNoRef, EntrySub}

\* Every sequence of at most MaxEntries entries.
LineupBodies == UNION {[1..n -> LineupEntries] : n \in 0..MaxEntries}

InitLineup ==
    /\ mainPc = 1
    /\ schedPc = "unstarted"
    /\ run = [t \in Threads |-> IdleFrame]
    /\ epgFile = None
    /\ m3uFile = None
    /\ device = DeviceFull
    /\ cache = {}
    /\ response = NoResponse
    /\ arg \in LineupBodies
    /\ ret = None

\* channels = get_channels_from_bouquet(...); the loop sets each "epg" to
\* what fetch_epg returns for an empty guide; then the two writers.
CallListAndWrite ==
    /\ ret = None
    /\ LET listed == get_channels_from_bouquet(arg)
           channels == [k \in 1..Len(listed) |->
                           [listed[k] EXCEPT !.epg = Some(fetch_epg(<<>>))]]
       IN  ret' = Some([channels |-> listed,
                        xml |-> write_epg_xml(channels),
                        m3u |-> write_m3u(channels)])
    /\ UNCHANGED <<mainPc, schedPc, run, epgFile, m3uFile, device, cache, response, arg>>

NextLineup == CallListAndWrite

SpecLineup == InitLineup /\ [][NextLineup]_vars

\* The entries of a body whose reference begins with "1:0", in body order.
PlayableEntries(body) ==
    SelectSeq(body, LAMBDA e :
        /\ e.ref # None
        /\ Len(Get(e.ref)) >= 3
        /\ SubSeq(Get(e.ref), 1, 3) = <<"1", ":", "0">>)

\* The stream lines of a playlist, in file order: one per channel.
StreamLines(doc) == SelectSeq(doc, LAMBDA c : c.line = "stream")

ServiceRefs == {Some(RefOther), Some(RefTv), Some(RefTvx), Some(<<>>), None}

\* The bouquet names: the configured one and the empty name (BOUQUET="").
BouquetNames == {BouquetName, <<>>}

ResolveInputs ==
    {[services |-> b, bouquet |-> n] :
        b \in UNION {[1..k -> ServiceRefs] : k \in 0..MaxEntries},
        n \in BouquetNames}

InitResolve ==
    /\ mainPc = 1
    /\ schedPc = "unstarted"
    /\ run = [t \in Threads |-> IdleFrame]
    /\ epgFile = None
    /\ m3uFile = None
    /\ device = DeviceFull
    /\ cache = {}
    /\ response = NoResponse
    /\ arg \in ResolveInputs
    /\ ret = None

\* bouquet_ref = get_bouquet_reference(host, port, bouquet)
\* if not bouquet_ref: return
CallResolve ==
    /\ ret = None
    /\ LET bouquet_ref == get_bouquet_reference(arg.services, arg.bouquet)
       IN  ret' = Some([bouquet_ref |-> bouquet_ref,
                        outcome |-> IF TruthyStr(bouquet_ref)
                                    THEN "proceeds" ELSE "notfound"])
    /\ UNCHANGED <<mainPc, schedPc, run, epgFile, m3uFile, device, cache, response, arg>>

NextResolve == CallResolve

SpecResolve == InitResolve /\ [][NextResolve]_vars

\* The reference text of a lineup entry, and whether p occurs in s.
EntryText(o) == IF o = None THEN <<>> ELSE Get(o)
IsSubstring(p, s) ==
    \E i \in 1..(Len(s) + 1) : \E j \in 0..Len(s) : SubSeq(s, i, j) = p

\* The positions of the entries whose reference contains the bouquet name.
Matches(services, bouquet) ==
    {k \in 1..Len(services) : IsSubstring(bouquet, EntryText(services[k]))}

\* C20: when an entry's reference contains the bouquet name, the reference
\* of the first such entry is returned and the run proceeds with it; the
\* run is not-found only when no entry matches.
C20_FirstMatchOrNotFound ==
    ret # None =>
        LET m == Matches(arg.services, arg.bouquet)
        IN  IF m = {}
            THEN Get(ret).bouquet_ref = None /\ Get(ret).outcome = "notfound"
            ELSE /\ Get(ret).bouquet_ref
                        = Some(EntryText(arg.services[CHOOSE k \in m : \A j \in m : k <= j]))
                 /\ Get(ret).outcome = "proceeds"

====
